---- MODULE Spec2Model ----
(***************************************************************************)
(* Model of the trainer-feedback pipeline:                                 *)
(*   task1_trainer_scout.py  load_and_clean -> compute_trainer_scores ->   *)
(*                           build_results -> save_json / save_html_report *)
(*                           / leaderboard.csv                             *)
(*   task2_outreach.py       load_results -> generate_outreach_draft ->    *)
(*                           outreach_ready.json                           *)
(*                                                                         *)
(* Text is a sequence of one-character strings.  Numbers computed by       *)
(* pandas are exact rationals [nan, n, d] (NaN carries nan = TRUE); values *)
(* rounded to two decimals are kept as rationals with denominator 100      *)
(* before reduction.  The float64 rounding error of the program is not     *)
(* modelled: arithmetic is exact.                                          *)
(***************************************************************************)
EXTENDS Integers, Sequences, FiniteSets, TLC

VARIABLES
    csv,            \* the table pd.read_csv yields for CSV_PATH
    df,             \* task1: cleaned frame
    scores_df,      \* task1: ranked trainer frame
    results,        \* task1: top-N result list
    files,          \* names of the output files written so far
    results_json,   \* content of output/results.json
    loaded,         \* task2: the list load_results returned
    drafts,         \* task2: drafts built so far
    outreach_json,  \* content of output/outreach_ready.json
    pc,             \* position of task1's __main__
    opc             \* position of task2's main()

vars == <<csv, df, scores_df, results, files, results_json, loaded, drafts,
          outreach_json, pc, opc>>

(***************************************************************************)
(* Program constants                                                       *)
(***************************************************************************)
MIN_RESPONSES == 3

TOP_N == 2

N_QUOTES == 2

QUOTE_MIN_LEN == 20

OUTREACH_MAX_LEN == 200

OUTREACH_KEEP_LEN == 197

NUM_RATING_COLS == 6

NUM_QUOTE_COLS == 3

ROW_ID_WIDTH == 3

RATING_COLS == 1..NUM_RATING_COLS

QUOTE_COLS == 1..NUM_QUOTE_COLS

(***************************************************************************)
(* Bounds of the explored inputs                                           *)
(***************************************************************************)
MaxDate == 4

MaxRows == 4

MaxPad == 1

(***************************************************************************)
(* Text                                                                    *)
(***************************************************************************)
Whitespace == {" ", "\t", "\n"}

\* str.strip(): drop leading and trailing whitespace
Strip(s) ==
    IF \A i \in 1..Len(s) : s[i] \in Whitespace THEN <<>>
    ELSE LET first == CHOOSE i \in 1..Len(s) :
                         s[i] \notin Whitespace /\ \A j \in 1..(i - 1) : s[j] \in Whitespace
             last == CHOOSE i \in 1..Len(s) :
                        s[i] \notin Whitespace /\ \A j \in (i + 1)..Len(s) : s[j] \in Whitespace
         IN  SubSeq(s, first, last)

LowerChar(c) ==
    CASE c = "Y" -> "y"
      [] c = "E" -> "e"
      [] c = "S" -> "s"
      [] c = "N" -> "n"
      [] c = "O" -> "o"
      [] OTHER -> c

\* str.lower()
Lower(s) == [i \in 1..Len(s) |-> LowerChar(s[i])]

\* str.replace("\n", " ")
ReplaceNewline(s) == [i \in 1..Len(s) |-> IF s[i] = "\n" THEN " " ELSE s[i]]

\* a missing cell (NaN / None) of a text column
NA == [na |-> TRUE, s |-> <<>>]

Cell(s) == [na |-> FALSE, s |-> s]

DigitChars == <<"0", "1", "2", "3", "4", "5", "6", "7", "8", "9">>

DigitValue(c) == (CHOOSE k \in 1..10 : DigitChars[k] = c) - 1

IsDigit(c) == \E k \in 1..10 : DigitChars[k] = c

RECURSIVE DecimalValue(_)
DecimalValue(s) ==
    IF s = <<>> THEN 0
    ELSE 10 * DecimalValue(SubSeq(s, 1, Len(s) - 1)) + DigitValue(s[Len(s)])

RECURSIVE DecimalDigits(_)
\* str(i) for i >= 0
DecimalDigits(i) ==
    IF i < 10 THEN <<DigitChars[i + 1]>>
    ELSE DecimalDigits(i \div 10) \o <<DigitChars[(i % 10) + 1]>>

RECURSIVE ZFill(_, _)
\* str.zfill(width)
ZFill(s, width) == IF Len(s) >= width THEN s ELSE ZFill(<<"0">> \o s, width)

\* "ROW-" + str(i + 1).zfill(3), i the 0-based position in the source
RowId(i) == <<"R", "O", "W", "-">> \o ZFill(DecimalDigits(i + 1), ROW_ID_WIDTH)

(***************************************************************************)
(* Numbers                                                                 *)
(***************************************************************************)
Abs(x) == IF x < 0 THEN -x ELSE x

RECURSIVE GCD(_, _)
GCD(a, b) == IF b = 0 THEN a ELSE GCD(b, a % b)

NaN == [nan |-> TRUE, n |-> 0, d |-> 1]

Rat(n, d) ==
    LET g == GCD(Abs(n), d)
    IN  [nan |-> FALSE, n |-> n \div g, d |-> d \div g]

RatAdd(x, y) ==
    IF x.nan \/ y.nan THEN NaN ELSE Rat(x.n * y.d + y.n * x.d, x.d * y.d)

RatSub(x, y) ==
    IF x.nan \/ y.nan THEN NaN ELSE Rat(x.n * y.d - y.n * x.d, x.d * y.d)

RatScale(x, k, m) == IF x.nan THEN NaN ELSE Rat(x.n * k, x.d * m)

\* x > y as IEEE comparison: any comparison with NaN is false
RatGt(x, y) == ~x.nan /\ ~y.nan /\ x.n * y.d > y.n * x.d

RatGe(x, y) == ~x.nan /\ ~y.nan /\ x.n * y.d >= y.n * x.d

\* round-half-even of n/d (d > 0) to an integer
RoundHalfEven(n, d) ==
    LET q == n \div d
        r == n % d
    IN  IF 2 * r < d THEN q
        ELSE IF 2 * r > d THEN q + 1
        ELSE IF q % 2 = 0 THEN q ELSE q + 1

\* round(x, 2) of numpy: scale by 100, round half to even, scale back
Round2(x) == IF x.nan THEN NaN ELSE Rat(RoundHalfEven(100 * x.n, x.d), 100)

\* pd.to_numeric(errors="coerce") on one cell: digits parse, anything else is NaN
ToNumeric(c) ==
    IF c.na \/ c.s = <<>> \/ \E i \in 1..Len(c.s) : ~IsDigit(c.s[i])
    THEN NaN
    ELSE Rat(DecimalValue(c.s), 1)

(***************************************************************************)
(* Input tables: the DataFrame pd.read_csv returns.  A cell is text or NA  *)
(* (read_csv turns an empty cell into NaN); "Creation Date" is kept as the *)
(* moment it denotes, 0 standing for text the date format rejects.         *)
(***************************************************************************)
Trainers == <<"A", "B", "C">>

\* pd.to_datetime(..., errors="coerce"): the moment, or NaT
NaT == 0

ToDatetime(c) == IF c > 0 THEN c ELSE NaT

Uniform(c) == [k \in RATING_COLS |-> c]

TwoFour(a, b) == [k \in RATING_COLS |-> IF k <= 2 THEN a ELSE b]

NoQuotes == [k \in QUOTE_COLS |-> NA]

RawRow(t, c, d, r, q) ==
    [Trainer |-> t, completed |-> c, CreationDate |-> d, ratings |-> r, quotes |-> q]

Yes == Cell(<<"y", "e", "s">>)

CompletedCells ==
    { Yes,
      Cell(<<" ", "Y", "e", "S", "\t">>),
      Cell(<<"n", "o">>),
      NA }

Six == Cell(<<"6">>)

Seven == Cell(<<"7">>)

Nine == Cell(<<"9">>)

Junk == Cell(<<"x">>)

Pad(k) == [i \in 1..k |-> " "]

\* a free-text answer: lead blanks, n letters (a line break inside when nl), trail blanks
Text(lead, n, trail, nl) ==
    Pad(lead)
    \o [i \in 1..n |-> IF nl /\ i = 5 THEN "\n" ELSE <<"a", "b", "c">>[(i % 3) + 1]]
    \o Pad(trail)

QuoteCells ==
    { NA,
      Cell(Text(MaxPad, QUOTE_MIN_LEN, MaxPad, FALSE)),
      Cell(Text(0, QUOTE_MIN_LEN + 1, 0, FALSE)),
      Cell(Text(MaxPad, QUOTE_MIN_LEN + 10, 0, TRUE)),
      Cell(Text(0, OUTREACH_MAX_LEN, MaxPad, FALSE)),
      Cell(Text(0, OUTREACH_MAX_LEN + 1, 0, FALSE)) }

\* completion filter and threshold: one trainer, every row any completion text;
\* ratings all 6, or 6 and 9 in turn
CompletionTables ==
    { [i \in 1..MaxRows |->
         RawRow("A", c[i], i, Uniform(IF alt /\ i % 2 = 0 THEN Nine ELSE Six), NoQuotes)] :
        c \in [1..MaxRows -> CompletedCells], alt \in BOOLEAN }

\* missing and unparseable ratings, columns with different numbers of observations
MissingTables ==
    { [i \in 1..6 |->
         IF i <= 3 THEN RawRow("A", Yes, i, TwoFour(a[i], b[i]), NoQuotes)
                   ELSE RawRow("B", Yes, i, Uniform(Seven), NoQuotes)] :
        a \in [1..3 -> {NA, Six, Seven}], b \in [1..3 -> {Junk, Six, Seven}] }

\* chronology: four responses of one trainer, any timestamps
DateTables ==
    { [i \in 1..4 |-> RawRow("B", Yes, d[i], Uniform(IF i <= 2 THEN x ELSE y), NoQuotes)] :
        d \in [1..4 -> 0..MaxDate], x \in {Six, Nine}, y \in {Six, Nine} }

\* ranking: three trainers, the last one with or without a third completed response
RankTables ==
    { [i \in 1..9 |->
         RawRow(Trainers[((i - 1) \div 3) + 1],
                IF i = 9 THEN c ELSE Yes, i, Uniform(r[i]), NoQuotes)] :
        r \in [1..9 -> {Six, Seven}], c \in {Yes, NA} }

\* free text: answers of two completed responses and of one that is not completed
QuoteTables ==
    { [i \in 1..4 |->
         RawRow("A", IF i = 4 THEN NA ELSE Yes, i, Uniform(Seven),
                CASE i = 1 -> [k \in QUOTE_COLS |-> q[k]]
                  [] i = 2 -> [k \in QUOTE_COLS |-> IF k = 1 THEN q[4] ELSE NA]
                  [] i = 3 -> NoQuotes
                  [] OTHER -> [k \in QUOTE_COLS |->
                                 Cell(Text(0, OUTREACH_MAX_LEN + 5, 0, FALSE))])] :
        q \in [1..4 -> QuoteCells] }

Tables == CompletionTables \cup MissingTables \cup DateTables \cup RankTables \cup QuoteTables

(***************************************************************************)
(* task1_trainer_scout.py                                                  *)
(***************************************************************************)
\* mutant: the completion text compared without trimming
IsCompletedUntrimmed(c) == ~c.na /\ Lower(c.s) = <<"y", "e", "s">>

\* df["completed"].str.strip().str.lower() == "yes"  (NaN compares unequal)
IsCompleted(c) == ~c.na /\ Lower(Strip(c.s)) = <<"y", "e", "s">>

\* one row of the frame load_and_clean returns, i the 1-based source position
CleanRow(raw, i) ==
    [row_id |-> RowId(i - 1),
     Trainer |-> raw.Trainer,
     date |-> ToDatetime(raw.CreationDate),
     ratings |-> [k \in RATING_COLS |-> ToNumeric(raw.ratings[k])],
     quotes |-> raw.quotes]

RECURSIVE CleanFrom(_, _)
CleanFrom(table, i) ==
    IF i > Len(table) THEN <<>>
    ELSE (IF IsCompleted(table[i].completed) THEN <<CleanRow(table[i], i)>> ELSE <<>>)
         \o CleanFrom(table, i + 1)

load_and_clean(table) == CleanFrom(table, 1)

RECURSIVE GroupOf(_, _)
\* the rows of one trainer, in frame order
GroupOf(frame, t) ==
    IF frame = <<>> THEN <<>>
    ELSE (IF Head(frame).Trainer = t THEN <<Head(frame)>> ELSE <<>>)
         \o GroupOf(Tail(frame), t)

RECURSIVE ColSum(_, _)
ColSum(rows, k) ==
    IF rows = <<>> THEN Rat(0, 1)
    ELSE IF Head(rows).ratings[k].nan THEN ColSum(Tail(rows), k)
    ELSE RatAdd(Head(rows).ratings[k], ColSum(Tail(rows), k))

RECURSIVE ColCount(_, _)
ColCount(rows, k) ==
    IF rows = <<>> THEN 0
    ELSE (IF Head(rows).ratings[k].nan THEN 0 ELSE 1) + ColCount(Tail(rows), k)

\* mutant: a missing value counted as zero
ColMeanZeroFilled(rows, k) == RatScale(ColSum(rows, k), 1, Len(rows))

\* DataFrame.mean() of one column: NaN skipped, NaN when nothing is left
ColMean(rows, k) ==
    IF ColCount(rows, k) = 0 THEN NaN ELSE RatScale(ColSum(rows, k), 1, ColCount(rows, k))

RECURSIVE SeriesSum(_, _)
SeriesSum(m, k) ==
    IF k = 0 THEN Rat(0, 1)
    ELSE IF m[k].nan THEN SeriesSum(m, k - 1)
    ELSE RatAdd(m[k], SeriesSum(m, k - 1))

\* Series.mean() of the column means: NaN skipped, NaN when nothing is left
SeriesMean(m) ==
    LET cnt == Cardinality({k \in RATING_COLS : ~m[k].nan})
    IN  IF cnt = 0 THEN NaN ELSE RatScale(SeriesSum(m, NUM_RATING_COLS), 1, cnt)

\* rows[RATING_COLS].mean().mean()
MeanOfMeans(rows) == SeriesMean([k \in RATING_COLS |-> ColMean(rows, k)])

Injections(n) == {p \in [1..n -> 1..n] : \A i, j \in 1..n : p[i] = p[j] => i = j}

\* ascending by date, NaT last
DateLe(a, b) == b = NaT \/ (a # NaT /\ a <= b)

\* mutant: the group left in input order
LeftUnsorted(group) == {group}

\* group.sort_values("date"): the order of equal dates is the sort's choice
SortedByDate(group) ==
    { [i \in 1..Len(group) |-> group[p[i]]] : p \in
        {q \in Injections(Len(group)) :
            \A i \in 1..(Len(group) - 1) : DateLe(group[q[i]].date, group[q[i + 1]].date)} }

\* len(group_sorted) // 2
Midpoint(n) == n \div 2

\* the dict appended for one trainer, group_sorted being the date-sorted group
Aggregate(t, group, group_sorted) ==
    LET n == Len(group)
        overall_score == MeanOfMeans(group)
        mid == Midpoint(Len(group_sorted))
        early_scores == IF mid > 0 THEN MeanOfMeans(SubSeq(group_sorted, 1, mid))
                                   ELSE overall_score
        late_scores == IF mid > 0 THEN MeanOfMeans(SubSeq(group_sorted, mid + 1, n))
                                  ELSE overall_score
        improvement == IF mid > 0 THEN RatSub(late_scores, early_scores) ELSE Rat(0, 1)
    IN  [trainer |-> t,
         n_responses |-> n,
         overall_score |-> Round2(overall_score),
         early_avg |-> Round2(early_scores),
         late_avg |-> Round2(late_scores),
         improvement |-> Round2(improvement),
         raw_combined |-> overall_score]

\* mutant: the threshold taken one too low
BelowThresholdOffByOne(n) == n < MIN_RESPONSES - 1

\* n < MIN_RESPONSES: the group is skipped
BelowThreshold(n) == n < MIN_RESPONSES

RECURSIVE ScoreRows(_, _)
\* the results lists the loop over df.groupby("Trainer") can build, from trainer k on
ScoreRows(frame, k) ==
    IF k > Len(Trainers) THEN {<<>>}
    ELSE LET group == GroupOf(frame, Trainers[k])
         IN  IF Len(group) = 0 \/ BelowThreshold(Len(group))
             THEN ScoreRows(frame, k + 1)
             ELSE { <<Aggregate(Trainers[k], group, gs)>> \o rest :
                      gs \in SortedByDate(group), rest \in ScoreRows(frame, k + 1) }

\* (0.6 * overall_score + 0.4 * late_avg).round(2)
TrainerScore(overall_score, late_avg) ==
    Round2(RatAdd(RatScale(overall_score, 6, 10), RatScale(late_avg, 4, 10)))

\* mutant: the unrounded overall mean blended, rounding only at the end
WithScoreFromRaw(r) ==
    [trainer |-> r.trainer,
     n_responses |-> r.n_responses,
     overall_score |-> r.overall_score,
     early_avg |-> r.early_avg,
     late_avg |-> r.late_avg,
     improvement |-> r.improvement,
     raw_combined |-> r.raw_combined,
     trainer_score |-> TrainerScore(r.raw_combined, r.late_avg)]

WithTrainerScore(r) ==
    [trainer |-> r.trainer,
     n_responses |-> r.n_responses,
     overall_score |-> r.overall_score,
     early_avg |-> r.early_avg,
     late_avg |-> r.late_avg,
     improvement |-> r.improvement,
     raw_combined |-> r.raw_combined,
     trainer_score |-> TrainerScore(r.overall_score, r.late_avg)]

\* descending, NaN last
ScoreBefore(a, b) == b.nan \/ (~a.nan /\ RatGe(a, b))

\* sort_values("trainer_score", ascending=False): equal scores in the sort's order
SortedByScore(rows) ==
    { [i \in 1..Len(rows) |-> rows[p[i]]] : p \in
        {q \in Injections(Len(rows)) :
            \A i \in 1..(Len(rows) - 1) :
                ScoreBefore(rows[q[i]].trainer_score, rows[q[i + 1]].trainer_score)} }

\* the frames compute_trainer_scores can return; {} when it exits
compute_trainer_scores(frame) ==
    UNION { SortedByScore([i \in 1..Len(rs) |-> WithTrainerScore(rs[i])]) :
              rs \in {x \in ScoreRows(frame, 1) : Len(x) # 0} }

QuoteTag == <<"3.12", "3.13", "2.6">>

\* mutant: the length taken before trimming
IsCandidateUntrimmed(val) == ~val.na /\ Len(val.s) > QUOTE_MIN_LEN

\* pd.notna(val) and isinstance(val, str) and len(val.strip()) > 20
IsCandidate(val) == ~val.na /\ Len(Strip(val.s)) > QUOTE_MIN_LEN

\* the candidates one row contributes, scanning QUOTE_COLS from column k on
RECURSIVE RowCandidates(_, _)
RowCandidates(row, k) ==
    IF k > NUM_QUOTE_COLS THEN <<>>
    ELSE LET val == row.quotes[k]
         IN  (IF IsCandidate(val)
              THEN <<[row_id |-> row.row_id,
                      quote |-> ReplaceNewline(Strip(val.s)),
                      source_column |-> QuoteTag[k],
                      length |-> Len(Strip(val.s))]>>
              ELSE <<>>)
             \o RowCandidates(row, k + 1)

RECURSIVE Candidates(_)
Candidates(group) ==
    IF group = <<>> THEN <<>>
    ELSE RowCandidates(Head(group), 1) \o Candidates(Tail(group))

\* x put behind every element at least as long (list.sort is stable)
InsertByLength(x, s) ==
    LET k == Cardinality({i \in 1..Len(s) : s[i].length >= x.length})
    IN  SubSeq(s, 1, k) \o <<x>> \o SubSeq(s, k + 1, Len(s))

RECURSIVE SortByLengthDesc(_)
\* candidates.sort(key=length, reverse=True)
SortByLengthDesc(c) ==
    IF c = <<>> THEN <<>>
    ELSE InsertByLength(c[Len(c)], SortByLengthDesc(SubSeq(c, 1, Len(c) - 1)))

\* s[:n] for n >= 0
Take(s, n) == SubSeq(s, 1, IF n < Len(s) THEN n ELSE Len(s))

extract_best_quotes(frame, trainer, n_quotes) ==
    Take(SortByLengthDesc(Candidates(GroupOf(frame, trainer))), n_quotes)

generate_case_study_angle(score_row) ==
    IF RatGt(score_row.improvement, Rat(0, 1))
    THEN [framing |-> "growth journey",
          numbers |-> <<score_row.overall_score, Rat(score_row.n_responses, 1),
                        score_row.improvement>>]
    ELSE [framing |-> "best practices",
          numbers |-> <<score_row.overall_score, Rat(score_row.n_responses, 1)>>]

\* the dict build_results appends for one row, position being len(results) + 1
ResultOf(frame, row, position) ==
    LET quotes == extract_best_quotes(frame, row.trainer, N_QUOTES)
    IN  [rank |-> position,
         trainer_name |-> row.trainer,
         n_responses |-> row.n_responses,
         trainer_score |-> row.trainer_score,
         overall_avg |-> row.overall_score,
         improvement |-> row.improvement,
         evidence_quotes |->
             [i \in 1..Len(quotes) |->
                 [row_id |-> quotes[i].row_id, quote |-> quotes[i].quote]],
         case_study_angle |-> generate_case_study_angle(row)]

\* mutant: every ranked trainer taken
WholeFrame(scores, top_n) == scores

\* scores_df.head(top_n)
TopTrainers(scores, top_n) == Take(scores, top_n)

build_results(frame, scores, top_n) ==
    LET top_trainers == TopTrainers(scores, top_n)
    IN  [i \in 1..Len(top_trainers) |-> ResultOf(frame, top_trainers[i], i)]

\* mutant: the empty frame is let through
NeverExits(rows) == FALSE

\* len(scores_df) == 0: sys.exit(1)
NoTrainerQualified(rows) == Len(rows) = 0

(***************************************************************************)
(* task2_outreach.py                                                       *)
(***************************************************************************)
NotAvailable == <<"N", "/", "A">>

Ellipsis == <<".", ".", ".">>

\* mutant: the marker appended to a full 200 characters
OutreachQuoteOverlong(trainer) ==
    LET quote == IF Len(trainer.evidence_quotes) > 0
                 THEN trainer.evidence_quotes[1].quote
                 ELSE NotAvailable
    IN  IF Len(quote) > OUTREACH_MAX_LEN
        THEN SubSeq(quote, 1, OUTREACH_MAX_LEN) \o Ellipsis
        ELSE quote

\* the quote the body embeds
OutreachQuote(trainer) ==
    LET quote == IF Len(trainer.evidence_quotes) > 0
                 THEN trainer.evidence_quotes[1].quote
                 ELSE NotAvailable
    IN  IF Len(quote) > OUTREACH_MAX_LEN
        THEN SubSeq(quote, 1, OUTREACH_KEEP_LEN) \o Ellipsis
        ELSE quote

\* body is the template with its three interpolated values and the quote;
\* display name and generation time are left out
generate_outreach_draft(trainer) ==
    [trainer_name |-> trainer.trainer_name,
     body |-> [overall_avg |-> trainer.overall_avg,
               n_responses |-> trainer.n_responses,
               quote |-> OutreachQuote(trainer)],
     trainer_score |-> trainer.trainer_score,
     n_responses |-> trainer.n_responses,
     case_study_angle |-> trainer.case_study_angle,
     status |-> "draft"]

(***************************************************************************)
(* The two stages                                                          *)
(***************************************************************************)
Init ==
    /\ csv \in Tables
    /\ df = <<>>
    /\ scores_df = <<>>
    /\ results = <<>>
    /\ files = {}
    /\ results_json = <<>>
    /\ loaded = <<>>
    /\ drafts = <<>>
    /\ outreach_json = <<>>
    /\ pc = "start"
    /\ opc = "start"

\* task1 line 277: df = load_and_clean(CSV_PATH)
LoadAndClean ==
    /\ pc = "start"
    /\ df' = load_and_clean(csv)
    /\ pc' = "loaded"
    /\ UNCHANGED <<csv, scores_df, results, files, results_json, loaded, drafts,
                   outreach_json, opc>>

\* pd.read_csv raises: the file is missing or unreadable
LoadFails ==
    /\ pc = "start"
    /\ pc' = "aborted"
    /\ UNCHANGED <<csv, df, scores_df, results, files, results_json, loaded, drafts,
                   outreach_json, opc>>

\* task1 line 279: scores_df = compute_trainer_scores(df)
ComputeTrainerScores ==
    /\ pc = "loaded"
    /\ \E rows \in ScoreRows(df, 1) :
          IF NoTrainerQualified(rows)
          THEN /\ pc' = "exited"
               /\ UNCHANGED scores_df
          ELSE /\ scores_df' \in
                    SortedByScore([i \in 1..Len(rows) |-> WithTrainerScore(rows[i])])
               /\ pc' = "scored"
    /\ UNCHANGED <<csv, df, results, files, results_json, loaded, drafts,
                   outreach_json, opc>>

\* task1 line 282: results = build_results(df, scores_df)
BuildResults ==
    /\ pc = "scored"
    /\ results' = build_results(df, scores_df, TOP_N)
    /\ pc' = "built"
    /\ UNCHANGED <<csv, df, scores_df, files, results_json, loaded, drafts,
                   outreach_json, opc>>

\* task1 line 287
SaveJson ==
    /\ pc = "built"
    /\ files' = files \cup {"results.json"}
    /\ results_json' = results
    /\ pc' = "json"
    /\ UNCHANGED <<csv, df, scores_df, results, loaded, drafts, outreach_json, opc>>

\* task1 line 288
SaveHtmlReport ==
    /\ pc = "json"
    /\ files' = files \cup {"report.html"}
    /\ pc' = "html"
    /\ UNCHANGED <<csv, df, scores_df, results, results_json, loaded, drafts,
                   outreach_json, opc>>

\* task1 line 291
SaveLeaderboard ==
    /\ pc = "html"
    /\ files' = files \cup {"leaderboard.csv"}
    /\ pc' = "done"
    /\ UNCHANGED <<csv, df, scores_df, results, results_json, loaded, drafts,
                   outreach_json, opc>>

ScoringEnded == pc \in {"aborted", "exited", "done"}

\* task2 line 65: results = load_results(INPUT_PATH)
LoadResults ==
    /\ ScoringEnded
    /\ opc = "start"
    /\ IF "results.json" \in files
       THEN loaded' = results_json /\ opc' = "loaded"
       ELSE UNCHANGED loaded /\ opc' = "aborted"
    /\ UNCHANGED <<csv, df, scores_df, results, files, results_json, drafts,
                   outreach_json, pc>>

\* task2 lines 68-74: the loop over results
GenerateDrafts ==
    /\ opc = "loaded"
    /\ drafts' = [i \in 1..Len(loaded) |-> generate_outreach_draft(loaded[i])]
    /\ opc' = "drafted"
    /\ UNCHANGED <<csv, df, scores_df, results, files, results_json, loaded,
                   outreach_json, pc>>

\* task2 lines 76-78
SaveOutreach ==
    /\ opc = "drafted"
    /\ files' = files \cup {"outreach_ready.json"}
    /\ outreach_json' = drafts
    /\ opc' = "done"
    /\ UNCHANGED <<csv, df, scores_df, results, results_json, loaded, drafts, pc>>

Next ==
    \/ LoadAndClean
    \/ LoadFails
    \/ ComputeTrainerScores
    \/ BuildResults
    \/ SaveJson
    \/ SaveHtmlReport
    \/ SaveLeaderboard
    \/ LoadResults
    \/ GenerateDrafts
    \/ SaveOutreach

Spec == Init /\ [][Next]_vars

(***************************************************************************)
(* Vocabulary of the properties, stated on the input table itself          *)
(***************************************************************************)
\* c reads "yes": blanks, then y e s in either case, then blanks
SaysYes(c) ==
    /\ ~c.na
    /\ \E i \in 1..Len(c.s) :
          /\ i + 2 <= Len(c.s)
          /\ c.s[i] \in {"y", "Y"}
          /\ c.s[i + 1] \in {"e", "E"}
          /\ c.s[i + 2] \in {"s", "S"}
          /\ \A j \in 1..Len(c.s) : j \notin i..(i + 2) => c.s[j] \in Whitespace

\* positions in the input of the completed records of trainer t
CompletedOf(t) == {i \in 1..Len(csv) : csv[i].Trainer = t /\ SaysYes(csv[i].completed)}

TrainerNames == {Trainers[k] : k \in 1..Len(Trainers)}

Ranked == {scores_df[i].trainer : i \in 1..Len(scores_df)}

Scored == pc \in {"scored", "built", "json", "html", "done"}

\* the trainers a list of result or draft records names
NamedIn(list) == {list[i].trainer_name : i \in 1..Len(list)}

\* C1: every trainer of the ranked list, of the top-N results and of everything
\* written from them has at least MIN_RESPONSES completed records in the input
C1_MinResponses ==
    \A t \in Ranked \cup NamedIn(results) \cup NamedIn(results_json)
              \cup NamedIn(loaded) \cup NamedIn(drafts) \cup NamedIn(outreach_json) :
        Cardinality(CompletedOf(t)) >= MIN_RESPONSES

\* a trainer with exactly two completed records is left out of a leaderboard
\* that ranks others, and the run has written its files
C1_Witness ==
    /\ pc = "done"
    /\ Len(results) > 0
    /\ \E t \in TrainerNames :
          /\ Cardinality(CompletedOf(t)) = MIN_RESPONSES - 1
          /\ t \notin Ranked \cup NamedIn(results_json)

\* the input with the ratings of every record that is not completed replaced by v
WithOtherRatings(v) ==
    [i \in 1..Len(csv) |->
        IF SaysYes(csv[i].completed) THEN csv[i]
        ELSE RawRow(csv[i].Trainer, csv[i].completed, csv[i].CreationDate,
                    Uniform(v), csv[i].quotes)]

\* C2: n_responses counts exactly the trainer's records reading "yes", and the
\* ranked frame compute_trainer_scores returns (unchanged from then on) is one
\* the input gives whatever the other records' ratings are
C2_OnlyCompleted ==
    /\ \A i \in 1..Len(scores_df) :
          scores_df[i].n_responses = Cardinality(CompletedOf(scores_df[i].trainer))
    /\ pc = "scored" /\ (\E i \in 1..Len(csv) : ~SaysYes(csv[i].completed)) =>
          \A v \in {NA, Nine} :
              scores_df \in compute_trainer_scores(load_and_clean(WithOtherRatings(v)))

\* a ranked trainer with a record completed as " YeS<tab>" and a record not
\* completed whose ratings differ from a completed one's
C2_Witness ==
    /\ Scored
    /\ \E i, j, k \in 1..Len(csv) :
          /\ csv[i].Trainer \in Ranked
          /\ csv[j].Trainer = csv[i].Trainer
          /\ csv[k].Trainer = csv[i].Trainer
          /\ SaysYes(csv[i].completed) /\ csv[i].completed # Yes
          /\ ~SaysYes(csv[j].completed)
          /\ SaysYes(csv[k].completed)
          /\ csv[j].ratings # csv[k].ratings

\* C3 (as claimed): every adjacent pair of the ranked frame satisfies
\* score[i] >= score[i+1]
C3_SortedNonIncreasing ==
    \A i \in 1..(Len(scores_df) - 1) :
        RatGe(scores_df[i].trainer_score, scores_df[i + 1].trainer_score)

\* x = y for two-decimal values where NaN matches NaN
SameNumber(x, y) == (x.nan /\ y.nan) \/ (~x.nan /\ ~y.nan /\ x.n * y.d = y.n * x.d)

\* v is a number of at most two decimals
TwoDecimals(v) == ~v.nan /\ 100 % v.d = 0

\* v is x rounded to two decimals: a multiple of 0.01 at most 0.005 away
\* (an undefined x gives an undefined v)
RoundsTo(x, v) ==
    IF x.nan THEN v.nan
    ELSE /\ TwoDecimals(v)
         /\ 200 * Abs(x.n * v.d - v.n * x.d) <= x.d * v.d

\* 0.6 * a + 0.4 * b, exactly
Blend(a, b) == IF a.nan \/ b.nan THEN NaN ELSE Rat(6 * a.n * b.d + 4 * b.n * a.d, 10 * a.d * b.d)

RECURSIVE SumOf(_, _)
\* the sum of f over the finite set S
SumOf(f, S) ==
    IF S = {} THEN 0
    ELSE LET x == CHOOSE y \in S : TRUE IN f[x] + SumOf(f, S \ {x})

\* record i of the input has a whole number in every rating field
FullyRated(i) == \A k \in RATING_COLS : ~ToNumeric(csv[i].ratings[k]).nan

\* the sum of the ratings of record i
RowTotal(i) == SumOf([k \in RATING_COLS |-> ToNumeric(csv[i].ratings[k]).n], RATING_COLS)

\* the records E have rating-mean m on average
AverageRatingMean(E, m) ==
    SumOf([i \in E |-> RowTotal(i)], E) = m * NUM_RATING_COLS * Cardinality(E)

\* trainer t has four completed, fully rated, dated records, the two earliest
\* averaging rating-mean 6 and the two latest 9
FourSixNine(t) ==
    LET I == CompletedOf(t)
    IN  /\ Cardinality(I) = 4
        /\ \A i \in I : FullyRated(i) /\ csv[i].CreationDate > 0
        /\ \E E \in SUBSET I :
              /\ Cardinality(E) = 2
              /\ \A e \in E, l \in I \ E : csv[e].CreationDate < csv[l].CreationDate
              /\ AverageRatingMean(E, 6)
              /\ AverageRatingMean(I \ E, 9)

\* the aggregate of trainer t shows early 6.0, late 9.0, improvement 3.0,
\* overall 7.5 and the given composite score
ShowsSixNine(t, score) ==
    \E i \in 1..Len(scores_df) :
        /\ scores_df[i].trainer = t
        /\ SameNumber(scores_df[i].early_avg, Rat(6, 1))
        /\ SameNumber(scores_df[i].late_avg, Rat(9, 1))
        /\ SameNumber(scores_df[i].improvement, Rat(3, 1))
        /\ SameNumber(scores_df[i].overall_score, Rat(75, 10))
        /\ SameNumber(scores_df[i].trainer_score, score)

\* C5 (as claimed): such a trainer gets early_avg 6.0, late_avg 9.0,
\* improvement 3.0, overall 7.5 and trainer_score 9.0
C5_ScoreNine ==
    \A t \in TrainerNames : Scored /\ FourSixNine(t) => ShowsSixNine(t, Rat(9, 1))

\* C5 (amended): such a trainer gets early_avg 6.0, late_avg 9.0,
\* improvement 3.0, overall 7.5 and trainer_score 8.1
C5_ScoreEightPointOne ==
    \A t \in TrainerNames : Scored /\ FourSixNine(t) => ShowsSixNine(t, Rat(81, 10))

\* such a trainer has been scored, its records not in date order in the input
C5_Witness ==
    /\ Scored
    /\ \E t \in TrainerNames :
          /\ FourSixNine(t)
          /\ \E i, j \in CompletedOf(t) : i < j /\ csv[i].CreationDate > csv[j].CreationDate

Built == pc \in {"built", "json", "html", "done"}

MinInt(a, b) == IF a < b THEN a ELSE b

\* C6: build_results returns min(TOP_N, number of ranked trainers) results, the
\* i-th carrying rank i and the trainer and figures of position i of the ranking
C6_TopNInRankOrder ==
    Built =>
        /\ Len(results) = MinInt(TOP_N, Len(scores_df))
        /\ \A i \in 1..Len(results) :
              /\ results[i].rank = i
              /\ results[i].trainer_name = scores_df[i].trainer
              /\ results[i].trainer_score = scores_df[i].trainer_score
              /\ results[i].n_responses = scores_df[i].n_responses

\* more trainers are ranked than TOP_N and the results stop at TOP_N
C6_Witness == Built /\ Len(scores_df) > TOP_N /\ Len(results) = TOP_N

\* the free-text answers of trainer t that qualify: <<record, field>> pairs
Qualifying(t) ==
    {x \in CompletedOf(t) \X QUOTE_COLS :
        ~csv[x[1]].quotes[x[2]].na /\ Len(Strip(csv[x[1]].quotes[x[2]].s)) > QUOTE_MIN_LEN}

TrimmedLen(x) == Len(Strip(csv[x[1]].quotes[x[2]].s))

\* quote q of trainer t is the answer x, trimmed, line breaks as blanks
QuoteIs(q, x) ==
    LET trimmed == Strip(csv[x[1]].quotes[x[2]].s)
    IN  /\ q.row_id = RowId(x[1] - 1)
        /\ Len(q.quote) = Len(trimmed)
        /\ \A j \in 1..Len(trimmed) :
              q.quote[j] = IF trimmed[j] = "\n" THEN " " ELSE trimmed[j]

\* C7: the quotes of every result are at most N_QUOTES, each a qualifying answer
\* (trimmed length above 20) of that trainer, in non-increasing length, no
\* qualifying answer left out being longer than one returned; none qualifying
\* gives the empty list (and only that does)
C7_BestQuotes ==
    \A i \in 1..Len(results) :
        LET q == results[i].evidence_quotes
            Q == Qualifying(results[i].trainer_name)
        IN  /\ Len(q) <= N_QUOTES
            /\ \A j \in 1..Len(q) :
                  /\ \E x \in Q : QuoteIs(q[j], x)
                  /\ Len(q[j].quote) > QUOTE_MIN_LEN
                  /\ Cardinality({x \in Q : TrimmedLen(x) > Len(q[j].quote)}) <= j - 1
            /\ \A j \in 1..(Len(q) - 1) : Len(q[j].quote) >= Len(q[j + 1].quote)
            /\ Q = {} => q = <<>>
            /\ Q # {} => q # <<>>

\* three answers qualify, of different lengths and not in length order, a
\* fourth has exactly 20 characters between its blanks, and two are returned
C7_Witness ==
    \E i \in 1..Len(results) :
        LET t == results[i].trainer_name
        IN  /\ Cardinality(Qualifying(t)) >= 3
            /\ Len(results[i].evidence_quotes) = N_QUOTES
            /\ \E x, y \in Qualifying(t) :
                  /\ x[1] < y[1] /\ TrimmedLen(x) < TrimmedLen(y)
            /\ \E x \in CompletedOf(t) \X QUOTE_COLS :
                  /\ ~csv[x[1]].quotes[x[2]].na
                  /\ Len(csv[x[1]].quotes[x[2]].s) > QUOTE_MIN_LEN
                  /\ TrimmedLen(x) = QUOTE_MIN_LEN

ScoringFiles == {"results.json", "report.html", "leaderboard.csv"}

\* some trainer has MIN_RESPONSES completed records in the input
SomeTrainerQualifies == \E t \in TrainerNames : Cardinality(CompletedOf(t)) >= MIN_RESPONSES

\* C8: a stage that met a fatal condition has written none of its files, and a
\* file is written only once loading, scoring and assembly have succeeded
C8_NoPartialOutput ==
    /\ pc \in {"start", "loaded", "scored", "built", "aborted", "exited"} =>
          files \cap ScoringFiles = {}
    /\ ~SomeTrainerQualifies => files \cap ScoringFiles = {} /\ ~Scored
    /\ files \cap ScoringFiles # {} =>
          /\ df = load_and_clean(csv)
          /\ Len(scores_df) > 0
          /\ Ranked = {t \in TrainerNames : Cardinality(CompletedOf(t)) >= MIN_RESPONSES}
          /\ results = build_results(df, scores_df, TOP_N)
          /\ "results.json" \in files /\ results_json = results
    /\ opc \in {"start", "loaded", "drafted", "aborted"} => "outreach_ready.json" \notin files
    /\ "outreach_ready.json" \in files =>
          /\ "results.json" \in files
          /\ loaded = results_json
          /\ Len(outreach_json) = Len(loaded)

\* the scoring stage has exited for want of a qualifying trainer although the
\* input has completed records, and the outreach stage then found no results file
C8_Witness ==
    /\ pc = "exited"
    /\ Len(df) > 0
    /\ opc = "aborted"
    /\ files = {}

\* the quote a draft was built from: the first evidence quote, if any
FirstQuote(trainer) ==
    IF Len(trainer.evidence_quotes) > 0 THEN Cell(trainer.evidence_quotes[1].quote) ELSE NA

\* e is the quote q as the outreach body shows it
EmbedsQuote(e, q) ==
    IF q.na THEN e = <<"N", "/", "A">>
    ELSE IF Len(q.s) <= OUTREACH_MAX_LEN THEN e = q.s
    ELSE /\ Len(e) <= OUTREACH_MAX_LEN
         /\ Len(e) >= 3
         /\ \A j \in (Len(e) - 2)..Len(e) : e[j] = "."
         /\ \A j \in 1..(Len(e) - 3) : e[j] = q.s[j]

\* C9: every draft's body shows the first evidence quote verbatim when it has
\* at most 200 characters, else a prefix of it plus "..." within 200 characters,
\* and "N/A" when the trainer has no evidence quote
C9_QuoteInBody ==
    /\ \A i \in 1..Len(drafts) : EmbedsQuote(drafts[i].body.quote, FirstQuote(loaded[i]))
    /\ \A i \in 1..Len(outreach_json) :
          EmbedsQuote(outreach_json[i].body.quote, FirstQuote(loaded[i]))

\* a draft built from a quote of more than 200 characters has been written
C9_Witness ==
    \E i \in 1..Len(outreach_json) :
        /\ ~FirstQuote(loaded[i]).na
        /\ Len(FirstQuote(loaded[i]).s) > OUTREACH_MAX_LEN
        /\ Len(outreach_json[i].body.quote) = OUTREACH_MAX_LEN

RECURSIVE ProdOf(_, _)
\* the product of f over the finite set S
ProdOf(f, S) ==
    IF S = {} THEN 1
    ELSE LET x == CHOOSE y \in S : TRUE IN f[x] * ProdOf(f, S \ {x})

\* the records among I with a value in rating field k
Observed(I, k) == {i \in I : ~ToNumeric(csv[i].ratings[k]).nan}

FieldTotal(I, k) ==
    SumOf([i \in Observed(I, k) |-> ToNumeric(csv[i].ratings[k]).n], Observed(I, k))

\* the mean over the rating fields observed in I of each field's mean over its
\* own observations; undefined when no field is observed
MeanOfFieldMeans(I) ==
    LET K == {k \in RATING_COLS : Observed(I, k) # {}}
        cnt == [k \in K |-> Cardinality(Observed(I, k))]
        D == ProdOf(cnt, K)
        N == SumOf([k \in K |-> FieldTotal(I, k) * (D \div cnt[k])], K)
    IN  IF K = {} THEN NaN ELSE Rat(N, D * Cardinality(K))

\* a before b in time, an unknown time counting as latest
NotAfter(a, b) == b <= 0 \/ (a > 0 /\ a <= b)

\* the sets of records of I that can form the early half
EarlyHalves(I) ==
    {E \in SUBSET I :
        /\ Cardinality(E) = Cardinality(I) \div 2
        /\ \A e \in E, l \in I \ E : NotAfter(csv[e].CreationDate, csv[l].CreationDate)}

\* C10: for every ranked trainer the overall mean is the mean of the per-field
\* means over the completed records, each field's mean over its non-missing
\* values only, and early_avg and late_avg are that mean over an early and the
\* matching late half of the records, all shown rounded to two decimals
\* (stated of the frame as compute_trainer_scores returns it)
C10_MeanOfFieldMeans ==
    pc = "scored" => \A i \in 1..Len(scores_df) :
        LET r == scores_df[i]
            I == CompletedOf(r.trainer)
        IN  /\ SameNumber(r.raw_combined, MeanOfFieldMeans(I))
            /\ RoundsTo(MeanOfFieldMeans(I), r.overall_score)
            /\ \E E \in EarlyHalves(I) :
                  /\ RoundsTo(MeanOfFieldMeans(E), r.early_avg)
                  /\ RoundsTo(MeanOfFieldMeans(I \ E), r.late_avg)

\* a ranked trainer with a missing and an unparseable rating whose fields have
\* different numbers of observations, the flat mean of all values differing
\* from the mean of the field means
C10_Witness ==
    \E i \in 1..Len(scores_df) :
        LET I == CompletedOf(scores_df[i].trainer)
            values == SumOf([k \in RATING_COLS |-> Cardinality(Observed(I, k))], RATING_COLS)
            total == SumOf([k \in RATING_COLS |-> FieldTotal(I, k)], RATING_COLS)
        IN  /\ \E j \in I, k \in RATING_COLS : csv[j].ratings[k].na
            /\ \E j \in I, k \in RATING_COLS : csv[j].ratings[k] = Junk
            /\ \E k, l \in RATING_COLS :
                  0 < Cardinality(Observed(I, k))
                  /\ Cardinality(Observed(I, k)) < Cardinality(Observed(I, l))
            /\ ~scores_df[i].raw_combined.nan
            /\ scores_df[i].raw_combined.n * values # total * scores_df[i].raw_combined.d

====
